---- MODULE Spec2Model ----
(***************************************************************************)
(* multicalcli: the multi-account aggregation engine (api.get_all_events), *)
(* the delete command built on it (cli.delete), the account colour         *)
(* assignment (display._get_account_color), the single-event paths         *)
(* (quick_add, cli.add), the week and month grids (display.print_week,     *)
(* display.print_month), the service cache (api.get_service), the page     *)
(* loops of get_events and list_calendars, and the account registry        *)
(* (accounts.add_account, accounts.remove_account).                        *)
(*                                                                         *)
(* Text is modelled as a sequence of one-character strings so that         *)
(* str.lower(), the substring test and the account-name regular expression *)
(* are computed rather than assumed.  Instants are whole hours since an    *)
(* epoch; a datetime is [utc |-> instant, off |-> UTC offset of its zone]. *)
(***************************************************************************)
EXTENDS Integers, Sequences, FiniteSets, TLC

----------------------------------------------------------------------------
(* Bounds of the model.                                                    *)

\* Longest account list handed to get_all_events in Spec.
MaxAccounts == 3

\* Latest instant datetime.now() returns during one call.
MaxClock == 16

\* Number of accounts of the worker-pool specification SpecPool.
NumPoolAccounts == 6

\* Number of account names of the colour specification SpecColor.
NumColorAccounts == 12
\* The last day a backend all-day item starts on, and its longest span in days.
MaxDay == 2
\* The latest local hour of a drawn time.
MaxHour == 24
\* The longest timed backend item, in hours.
MaxLen == 2
\* The largest magnitude of --duration, in hours.
MaxDuration == 2
\* The longest event list handed to a view.
MaxEvents == 3
\* The most weeks print_week is asked for.
MaxWeeks == 2
\* The number of days, after the first, on which events of a week view start.
MaxSpan == 9
\* The longest event list handed to the month view.
MaxMonthEvents == 5
\* The most worker threads that call get_service, and the get_service calls
\* each of them makes.
MaxThreads == 3
MaxCalls == 2
\* The most pages a listing has.
MaxPages == 3

----------------------------------------------------------------------------
(* Program constants.                                                      *)

\* ThreadPoolExecutor(max_workers=5)
MaxWorkersOffByOne == 5 + 1
MaxWorkers == 5

\* KST = tz.gettz("Asia/Seoul"): UTC+9, no daylight saving.
KSTOffset == 9

DefaultAccessRoles == {"owner", "writer", "reader"}

\* display.ACCOUNT_COLORS
ACCOUNT_COLORS ==
    <<"cyan", "magenta", "green", "yellow", "blue",
      "red", "bright_cyan", "bright_magenta", "bright_green", "bright_yellow">>

----------------------------------------------------------------------------
(* Text.                                                                   *)

UpperChars == <<"A","B","C","D","E","F","G","H","I","J","K","L","M",
                "N","O","P","Q","R","S","T","U","V","W","X","Y","Z">>
LowerChars == <<"a","b","c","d","e","f","g","h","i","j","k","l","m",
                "n","o","p","q","r","s","t","u","v","w","x","y","z">>
DigitChars == <<"0","1","2","3","4","5","6","7","8","9">>

Range(s) == {s[k] : k \in DOMAIN s}

\* str.lower() on one character.
LowerChar(c) ==
    IF \E k \in DOMAIN UpperChars : UpperChars[k] = c
    THEN LowerChars[CHOOSE k \in DOMAIN UpperChars : UpperChars[k] = c]
    ELSE c

\* str.lower()
Lower(s) == [k \in DOMAIN s |-> LowerChar(s[k])]

\* Python's `sub in text`.
Contains(text, sub) ==
    \E k \in 0..(Len(text) - Len(sub)) :
        \A j \in 1..Len(sub) : text[k + j] = sub[j]

\* config.validate_account_name: re.match(r'^[a-zA-Z0-9_\-]+$', name).
\* `$` also matches just before one trailing newline.
NameChars == Range(UpperChars) \cup Range(LowerChars) \cup Range(DigitChars)
                 \cup {"_", "-"}
ValidAccountName(name) ==
    LET body == IF Len(name) > 0 /\ name[Len(name)] = "\n"
                THEN SubSeq(name, 1, Len(name) - 1) ELSE name
    IN  /\ Len(body) > 0
        /\ \A k \in DOMAIN body : body[k] \in NameChars

----------------------------------------------------------------------------
(* The accounts and the calendar backend of each (the environment).        *)

Alice   == <<"a","l","i","c","e">>
Bob     == <<"b","o","b">>
Carol   == <<"c","a","r","o","l">>
\* A directory name list_account_names() can return although it is no valid
\* account name.
BadName == <<"a"," ","b">>

\* config.list_account_names() returns the names sorted.
SortedNames == <<BadName, Alice, Bob, Carol>>

PoolName(n) == <<"p", DigitChars[n + 1]>>

WorkTeam     == <<"W","o","r","k"," ","T","e","a","m">>
Job          == <<"J","o","b">>
Family       == <<"F","a","m","i","l","y">>
TeamHolidays == <<"T","e","a","m"," ","H","o","l","i","d","a","y","s">>
TeamLower    == <<"t","e","a","m">>
Personal     == <<"P","e","r","s","o","n","a","l">>
Main         == <<"M","a","i","n">>

\* The pages calendarList().list() returns for an account.
CalendarPages(name) ==
    IF name = Alice THEN
        << << [id |-> "a-work", summary |-> Job, summaryOverride |-> WorkTeam,
               accessRole |-> "owner"] >>,
           << [id |-> "a-fam", summary |-> Family, summaryOverride |-> <<>>,
               accessRole |-> "reader"],
              [id |-> "a-hol", summary |-> TeamHolidays, summaryOverride |-> <<>>,
               accessRole |-> "freeBusyReader"] >> >>
    ELSE IF name = Bob THEN
        << << [id |-> "b-main", summary |-> TeamLower, summaryOverride |-> <<>>,
               accessRole |-> "writer"] >> >>
    ELSE IF name = Carol THEN
        << << [id |-> "c-main", summary |-> Personal, summaryOverride |-> <<>>,
               accessRole |-> "owner"],
              [id |-> "c-shared", summary |-> WorkTeam, summaryOverride |-> <<>>,
               accessRole |-> "none"] >> >>
    ELSE IF name = PoolName(1) THEN
        << << [id |-> "p-main", summary |-> Main, summaryOverride |-> <<>>,
               accessRole |-> "owner"] >> >>
    ELSE << <<>> >>

\* The pages events().list() returns for a calendar (orderBy=startTime).
\* A time object holds either a bare date (a day number) or a local time in
\* hours with the UTC offset of its zone (no offset: the zone is omitted).
EventPages(name, calendar_id) ==
    IF calendar_id = "a-work" THEN
        << << [id |-> "w1", status |-> "confirmed",
               start |-> [dateTime |-> 20, offset |-> 9],
               end   |-> [dateTime |-> 21, offset |-> 9]],
              [id |-> "w2", status |-> "cancelled",
               start |-> [dateTime |-> 12, offset |-> 0],
               end   |-> [dateTime |-> 13, offset |-> 0]] >>,
           << [id |-> "w3", status |-> "tentative",
               start |-> [date |-> 1],
               end   |-> [date |-> 2]] >> >>
    ELSE IF calendar_id = "a-fam" THEN
        << << [id |-> "f1", status |-> "confirmed",
               start |-> [dateTime |-> 15],
               end   |-> [dateTime |-> 39]] >> >>
    ELSE IF calendar_id = "a-hol" THEN
        << << [id |-> "h1", status |-> "confirmed",
               start |-> [date |-> 1],
               end   |-> [date |-> 2]] >> >>
    ELSE IF calendar_id = "b-main" THEN
        << << [id |-> "b1", status |-> "confirmed",
               start |-> [dateTime |-> 6, offset |-> -5],
               end   |-> [dateTime |-> 7, offset |-> -5]],
              [id |-> "b2", status |-> "confirmed",
               start |-> [dateTime |-> 15, offset |-> 0],
               end   |-> [dateTime |-> 16, offset |-> 0]] >> >>
    ELSE IF calendar_id = "c-main" THEN
        << << [id |-> "c1", status |-> "confirmed",
               start |-> [dateTime |-> 25, offset |-> 9],
               end   |-> [dateTime |-> 26, offset |-> 9]] >> >>
    ELSE IF calendar_id = "c-shared" THEN
        << << [id |-> "s1", status |-> "confirmed",
               start |-> [dateTime |-> 15, offset |-> 0],
               end   |-> [dateTime |-> 16, offset |-> 0]] >> >>
    ELSE IF calendar_id = "p-main" THEN
        << << [id |-> "p1", status |-> "confirmed",
               start |-> [dateTime |-> 15, offset |-> 0],
               end   |-> [dateTime |-> 16, offset |-> 0]] >> >>
    ELSE << <<>> >>

\* What can go wrong for an account during one call: nothing, no stored
\* credential, a transport error while listing its calendars, or a
\* transport/backend error while listing the events of one calendar.
NoFault == [kind |-> "none", at |-> ""]
FaultChoices(name) ==
    IF name = Alice THEN {NoFault, [kind |-> "events", at |-> "a-fam"]}
    ELSE IF name = Bob THEN {NoFault, [kind |-> "list", at |-> ""]}
    ELSE IF name = Carol THEN {NoFault, [kind |-> "nocred", at |-> ""]}
    ELSE IF name = PoolName(2) THEN {[kind |-> "nocred", at |-> ""]}
    ELSE {NoFault}

\* The --calendar values of a command line.
FilterChoices == { <<>>, <<TeamLower>>, << <<"z","z">>, <<"F","A","M">> >> }

----------------------------------------------------------------------------
(* Pure functions of api.py.                                               *)

RECURSIVE Flatten(_)
Flatten(pages) ==
    IF pages = <<>> THEN <<>> ELSE Head(pages) \o Flatten(Tail(pages))

\* api._parse_event_time: (datetime in KST, is_all_day).
ParseEventTime(time_obj) ==
    IF "date" \in DOMAIN time_obj
    THEN [dt |-> [utc |-> 24 * time_obj.date - KSTOffset, off |-> KSTOffset],
          all_day |-> TRUE]
    ELSE LET srcOff == IF "offset" \in DOMAIN time_obj THEN time_obj.offset ELSE 0
         IN  [dt |-> [utc |-> time_obj.dateTime - srcOff, off |-> KSTOffset],
              all_day |-> FALSE]

\* The Event api.get_events builds from one backend item.
MakeEvent(item, account_name, calendar_id) ==
    [id           |-> item.id,
     start        |-> ParseEventTime(item.start).dt,
     end          |-> ParseEventTime(item.end).dt,
     account_name |-> account_name,
     calendar_id  |-> calendar_id,
     all_day      |-> ParseEventTime(item.start).all_day,
     status       |-> item.status]

\* api.get_events on success: every page, cancelled items skipped.
GetEvents(account_name, calendar_id) ==
    LET items == Flatten(EventPages(account_name, calendar_id))
        kept  == SelectSeq(items, LAMBDA it : it.status # "cancelled")
    IN  [k \in DOMAIN kept |-> MakeEvent(kept[k], account_name, calendar_id)]

\* api.list_calendars on success: every page, display name resolved.
ListCalendars(account_name) ==
    LET items == Flatten(CalendarPages(account_name))
    IN  [k \in DOMAIN items |->
            [id           |-> items[k].id,
             summary      |-> IF items[k].summaryOverride # <<>>
                              THEN items[k].summaryOverride
                              ELSE items[k].summary,
             access_role  |-> items[k].accessRole,
             account_name |-> account_name]]

\* get_all_events._match_calendar
MatchCalendar(cal, filter) ==
    IF filter = <<>> THEN TRUE
    ELSE \E k \in DOMAIN filter : Contains(Lower(cal.summary), Lower(filter[k]))

\* A faulty eligibility test that forgets the access role.
EligibleAnyRole(cal, filter) == MatchCalendar(cal, filter)
\* The condition of the loop of get_all_events._fetch_account.
Eligible(cal, filter) ==
    cal.access_role \in DefaultAccessRoles /\ MatchCalendar(cal, filter)

\* A faulty error event that is filed under no account.
ErrorEventAnonymous(account, t1, t2) ==
    [id |-> "error", start |-> [utc |-> t1, off |-> 0],
     end |-> [utc |-> t2, off |-> 0], account_name |-> <<>>,
     calendar_id |-> "", all_day |-> FALSE, status |-> "error"]
\* The synthetic Event get_all_events appends for a failed account; t1 and
\* t2 are its two readings of datetime.now(timezone.utc).
ErrorEvent(account, t1, t2) ==
    [id |-> "error", start |-> [utc |-> t1, off |-> 0],
     end |-> [utc |-> t2, off |-> 0], account_name |-> account,
     calendar_id |-> "", all_day |-> FALSE, status |-> "error"]

\* Comparison of two aware datetimes is comparison of their instants.
StartKey(e) == e.start.utc

\* Insert e behind every element whose key is not larger (stable).
RECURSIVE InsertStable(_, _)
InsertStable(e, s) ==
    IF s = <<>> THEN <<e>>
    ELSE IF StartKey(s[Len(s)]) <= StartKey(e) THEN Append(s, e)
    ELSE Append(InsertStable(e, SubSeq(s, 1, Len(s) - 1)), s[Len(s)])

\* A faulty merge that returns the events in arrival order.
SortByStartSkipped(s) == s
\* A faulty sort that puts an event before the earlier events of equal start.
RECURSIVE SortByStartUnstable(_)
SortByStartUnstable(s) ==
    IF s = <<>> THEN <<>>
    ELSE LET rest == SortByStartUnstable(SubSeq(s, 1, Len(s) - 1))
             e    == s[Len(s)]
             lo   == SelectSeq(rest, LAMBDA x : StartKey(x) < StartKey(e))
             hi   == SelectSeq(rest, LAMBDA x : StartKey(x) >= StartKey(e))
         IN  lo \o <<e>> \o hi
\* all_events.sort(key=lambda e: e.start): list.sort is stable.
RECURSIVE SortByStart(_)
SortByStart(s) ==
    IF s = <<>> THEN <<>>
    ELSE InsertStable(s[Len(s)], SortByStart(SubSeq(s, 1, Len(s) - 1)))

----------------------------------------------------------------------------
(* State.                                                                  *)

VARIABLES
    cmd,            \* the command that runs: "agenda" or "delete"
    account_names,  \* argument of get_all_events
    calendar_filter,\* argument of get_all_events (<<>>: None)
    fault,          \* environment: what goes wrong for each account
    pc,             \* position of the caller inside get_all_events
    submitted,      \* number of executor.submit calls made so far
    taskState,      \* per task: "new", "queued", "running", "ok", "failed",
                    \*           "collected"
    taskCalendars,  \* _fetch_account: local `calendars`
    taskIdx,        \* _fetch_account: 0 before list_calendars, then the
                    \*                 index of the next calendar of the loop
    taskEvents,     \* _fetch_account: local `events`
    taskError,      \* the exception stored in the task's future
    queried,        \* per task: the calendar ids get_events was called with
    service_cache,  \* api._service_cache (its keys)
    all_events,     \* get_all_events: local `all_events`
    collectOrder,   \* the order in which as_completed yielded the tasks
    clock,          \* the last reading of datetime.now()
    result,         \* the list get_all_events returned
    cliPc,          \* position of the command after its search
    deleteCalls,    \* the calls of api.delete_event made so far
    color_map,      \* display._color_map
    seenOrder,      \* the distinct accounts in order of their first colour call
    firstColor,     \* the colour each account got on its first call
    lastCall,       \* the last _get_account_color call and what it returned
    built,          \* the Event a single-event path constructed last
    builtFrom,      \* the input that Event was constructed from
    gridInput,      \* arguments of the last print_week / print_month call
    grid,           \* the table rows that call added
    svcPc,          \* get_service threads: position of each
    svcCache,       \* api._service_cache as seen by those threads
    svcHandles,     \* every service handle build() has created
    svcGot,         \* the handle get_service returned to each thread
    pgKind,         \* paginated call: "events" or "calendars"
    pgPages,        \* the pages the backend holds for it
    pgFailAt,       \* the request that fails (0: none)
    pgToken,        \* local `page_token`
    pgItems,        \* local `events` / `calendars`
    pgPc,           \* "loop", "returned" or "raised"
    pgRequests,     \* the pageToken of every request made
    pgReturned,     \* what the caller received
    tokens,         \* the accounts that have a token.json
    default_account,\* config.json: default_account
    lastOp          \* the last add_account / remove_account call

aggVars == <<cmd, account_names, calendar_filter, fault, pc, submitted,
             taskState, taskCalendars, taskIdx, taskEvents, taskError, queried,
             service_cache, all_events, collectOrder, clock, result, cliPc,
             deleteCalls>>
colorVars == <<color_map, seenOrder, firstColor, lastCall>>
eventVars == <<built, builtFrom>>
gridVars == <<gridInput, grid>>
cacheVars == <<svcPc, svcCache, svcHandles, svcGot>>
pageVars == <<pgKind, pgPages, pgFailAt, pgToken, pgItems, pgPc, pgRequests,
              pgReturned>>
acctVars == <<tokens, default_account, lastOp>>
restVars == <<eventVars, gridVars, cacheVars, pageVars, acctVars>>
vars == <<aggVars, colorVars, restVars>>

Tasks == 1..Len(account_names)

Running == {i \in Tasks : taskState[i] = "running"}

\* A worker thread of the pool is free to take the next queued work item.
WorkerAvailable == Cardinality(Running) < MaxWorkers

\* The loop over as_completed(futures) has yielded every future.
SomeJoined == \E i \in Tasks : taskState[i] = "collected"
AllJoined == \A i \in Tasks : taskState[i] = "collected"

----------------------------------------------------------------------------
(* Initial states.                                                         *)

\* The sorted account lists of at most n of the names.
RECURSIVE PickSorted(_, _)
PickSorted(names, chosen) ==
    IF names = <<>> THEN <<>>
    ELSE (IF Head(names) \in chosen THEN <<Head(names)>> ELSE <<>>)
             \o PickSorted(Tail(names), chosen)

AccountLists(n) ==
    {PickSorted(SortedNames, chosen) :
        chosen \in {c \in SUBSET Range(SortedNames) : Cardinality(c) <= n}}

PoolAccounts == [n \in 1..NumPoolAccounts |-> PoolName(n)]

AllNames == Range(SortedNames) \cup Range(PoolAccounts)

InitTasks ==
    /\ pc = "call"
    /\ submitted = 0
    /\ taskState = [i \in Tasks |-> "new"]
    /\ taskCalendars = [i \in Tasks |-> <<>>]
    /\ taskIdx = [i \in Tasks |-> 0]
    /\ taskEvents = [i \in Tasks |-> <<>>]
    /\ taskError = [i \in Tasks |-> ""]
    /\ queried = [i \in Tasks |-> <<>>]
    /\ service_cache = {}
    /\ all_events = <<>>
    /\ collectOrder = <<>>
    /\ clock = 14
    /\ result = <<>>
    /\ cliPc = "search"
    /\ deleteCalls = <<>>

InitColors ==
    /\ color_map = << >>
    /\ seenOrder = << >>
    /\ firstColor = << >>
    /\ lastCall = [name |-> <<>>, color |-> ""]

\* No single-event path, layout call, get_service thread, paginated call or
\* account operation has run.
NoEvent == [id |-> "none"]
NoDefault == <<"None">>
InitEventVars ==
    /\ built = NoEvent
    /\ builtFrom = [path |-> "none"]
InitGridVars ==
    /\ gridInput = [view |-> "none"]
    /\ grid = <<>>
InitCacheVars ==
    /\ svcPc = <<>>
    /\ svcCache = << >>
    /\ svcHandles = <<>>
    /\ svcGot = <<>>
InitPageVars ==
    /\ pgKind = "events"
    /\ pgPages = <<>>
    /\ pgFailAt = 0
    /\ pgToken = 0
    /\ pgItems = <<>>
    /\ pgPc = "returned"
    /\ pgRequests = <<>>
    /\ pgReturned = <<>>
InitAcctVars ==
    /\ tokens = {}
    /\ default_account = NoDefault
    /\ lastOp = [op |-> "none", name |-> <<>>, outcome |-> "none",
                 wasDefault |-> FALSE]
InitRest ==
    /\ InitEventVars /\ InitGridVars /\ InitCacheVars /\ InitPageVars
    /\ InitAcctVars

\* cli.agenda/week/month/search pass the sorted registered names (or one of
\* them) and the --calendar filter; cli.delete passes one name and no filter.
Init ==
    /\ cmd \in {"agenda", "delete"}
    /\ account_names \in AccountLists(MaxAccounts)
    /\ cmd = "delete" => Len(account_names) = 1
    /\ calendar_filter \in FilterChoices
    /\ cmd = "delete" => calendar_filter = <<>>
    /\ \E fa \in FaultChoices(Alice), fb \in FaultChoices(Bob),
          fc \in FaultChoices(Carol) :
          fault = [n \in AllNames |->
                      IF n \notin Range(account_names) THEN NoFault
                      ELSE IF n = Alice THEN fa
                      ELSE IF n = Bob THEN fb
                      ELSE IF n = Carol THEN fc
                      ELSE NoFault]
    /\ InitTasks
    /\ InitColors
    /\ InitRest

\* More accounts than the pool has workers.
InitPool ==
    /\ cmd = "agenda"
    /\ account_names = PoolAccounts
    /\ calendar_filter = <<>>
    /\ fault = [n \in AllNames |->
                   IF n = PoolName(2) THEN [kind |-> "nocred", at |-> ""]
                   ELSE NoFault]
    /\ InitTasks
    /\ InitColors
    /\ InitRest

----------------------------------------------------------------------------
(* get_all_events.                                                         *)

\* Lines 171-177: an empty account list returns [] at once.
Enter ==
    /\ pc = "call"
    /\ IF account_names = <<>>
       THEN /\ pc' = "returned"
            /\ result' = <<>>
       ELSE /\ pc' = "submit"
            /\ UNCHANGED result
    /\ UNCHANGED <<cmd, account_names, calendar_filter, fault, submitted,
                   taskState, taskCalendars, taskIdx, taskEvents, taskError,
                   queried, service_cache, all_events, collectOrder, clock,
                   cliPc, deleteCalls, colorVars, restVars>>

\* Lines 201-204: executor.submit(_fetch_account, name), in list order; the
\* loop over as_completed starts once every task is submitted.
Submit ==
    /\ pc = "submit"
    /\ submitted < Len(account_names)
    /\ submitted' = submitted + 1
    /\ taskState' = [taskState EXCEPT ![submitted + 1] = "queued"]
    /\ pc' = IF submitted + 1 = Len(account_names) THEN "collect" ELSE "submit"
    /\ UNCHANGED <<cmd, account_names, calendar_filter, fault, taskCalendars,
                   taskIdx, taskEvents, taskError, queried, service_cache,
                   all_events, collectOrder, clock, result, cliPc, deleteCalls,
                   colorVars, restVars>>

\* A free worker takes the oldest queued work item (the queue is FIFO).
WorkerStart(i) ==
    /\ taskState[i] = "queued"
    /\ \A j \in Tasks : taskState[j] = "queued" => i <= j
    /\ WorkerAvailable
    /\ taskState' = [taskState EXCEPT ![i] = "running"]
    /\ UNCHANGED <<cmd, account_names, calendar_filter, fault, pc, submitted,
                   taskCalendars, taskIdx, taskEvents, taskError, queried,
                   service_cache, all_events, collectOrder, clock, result,
                   cliPc, deleteCalls, colorVars, restVars>>

\* api.get_service: "" when a service is returned, else the error raised.
\* load_credentials validates the name before it looks for the token file.
GetServiceError(name) ==
    IF name \in service_cache THEN ""
    ELSE IF ~ValidAccountName(name) THEN "ValueError: invalid account name"
    ELSE IF fault[name].kind = "nocred" THEN "ValueError: no credentials"
    ELSE ""

\* _fetch_account line 187: list_calendars(name), which starts with
\* get_service(name).
FetchListCalendars(i) ==
    LET name == account_names[i]
        err  == IF GetServiceError(name) # "" THEN GetServiceError(name)
                ELSE IF fault[name].kind = "list" THEN "TransportError"
                ELSE ""
    IN  /\ taskState[i] = "running"
        /\ taskIdx[i] = 0
        /\ service_cache' = IF GetServiceError(name) = ""
                            THEN service_cache \cup {name} ELSE service_cache
        /\ IF err # ""
           THEN /\ taskState' = [taskState EXCEPT ![i] = "failed"]
                /\ taskError' = [taskError EXCEPT ![i] = err]
                /\ UNCHANGED <<taskCalendars, taskIdx>>
           ELSE /\ taskCalendars' = [taskCalendars EXCEPT ![i] = ListCalendars(name)]
                /\ taskIdx' = [taskIdx EXCEPT ![i] = 1]
                /\ UNCHANGED <<taskState, taskError>>
        /\ UNCHANGED <<cmd, account_names, calendar_filter, fault, pc,
                       submitted, taskEvents, queried, all_events, collectOrder,
                       clock, result, cliPc, deleteCalls, colorVars, restVars>>

\* A faulty worker that also appends what it fetched to the caller's list.
AllEventsAfterFetchAppended(merged, fetched) == merged \o fetched
\* _fetch_account extends its local `events`; the caller's all_events is
\* what it was.
AllEventsAfterFetch(merged, fetched) == merged

\* _fetch_account lines 189-197: one round of the loop over the calendars.
FetchCalendar(i) ==
    LET name == account_names[i]
        cal  == taskCalendars[i][taskIdx[i]]
    IN  /\ taskState[i] = "running"
        /\ taskIdx[i] \in 1..Len(taskCalendars[i])
        /\ IF Eligible(cal, calendar_filter)
           THEN /\ queried' = [queried EXCEPT ![i] = Append(@, cal.id)]
                /\ IF fault[name].kind = "events" /\ fault[name].at = cal.id
                   THEN /\ taskState' = [taskState EXCEPT ![i] = "failed"]
                        /\ taskError' = [taskError EXCEPT ![i] = "TransportError"]
                        /\ UNCHANGED <<taskIdx, taskEvents>>
                   ELSE /\ taskEvents' = [taskEvents EXCEPT
                                            ![i] = @ \o GetEvents(name, cal.id)]
                        /\ taskIdx' = [taskIdx EXCEPT ![i] = @ + 1]
                        /\ UNCHANGED <<taskState, taskError>>
           ELSE /\ taskIdx' = [taskIdx EXCEPT ![i] = @ + 1]
                /\ UNCHANGED <<queried, taskState, taskError, taskEvents>>
        /\ all_events' = AllEventsAfterFetch(all_events,
                                             GetEvents(name, cal.id))
        /\ UNCHANGED <<cmd, account_names, calendar_filter, fault, pc,
                       submitted, taskCalendars, service_cache,
                       collectOrder, clock, result, cliPc, deleteCalls,
                       colorVars, restVars>>

\* _fetch_account line 198: return events; the future holds the result.
FetchReturn(i) ==
    /\ taskState[i] = "running"
    /\ taskIdx[i] = Len(taskCalendars[i]) + 1
    /\ taskState' = [taskState EXCEPT ![i] = "ok"]
    /\ UNCHANGED <<cmd, account_names, calendar_filter, fault, pc, submitted,
                   taskCalendars, taskIdx, taskEvents, taskError, queried,
                   service_cache, all_events, collectOrder, clock, result,
                   cliPc, deleteCalls, colorVars, restVars>>

\* Lines 205-218: as_completed yields a finished future; its events are
\* appended, or its exception becomes one error event.
Collect(i) ==
    /\ pc = "collect"
    /\ taskState[i] \in {"ok", "failed"}
    /\ taskState' = [taskState EXCEPT ![i] = "collected"]
    /\ collectOrder' = Append(collectOrder, i)
    /\ IF taskState[i] = "ok"
       THEN /\ all_events' = all_events \o taskEvents[i]
            /\ UNCHANGED clock
       ELSE \E t1 \in clock..MaxClock : \E t2 \in t1..MaxClock :
               /\ all_events' = Append(all_events,
                                       ErrorEvent(account_names[i], t1, t2))
               /\ clock' = t2
    /\ UNCHANGED <<cmd, account_names, calendar_filter, fault, pc, submitted,
                   taskCalendars, taskIdx, taskEvents, taskError, queried,
                   service_cache, result, cliPc, deleteCalls, colorVars, restVars>>

\* Lines 218-221: the loop ends when every future was yielded; the executor
\* is shut down, the list sorted and returned.
SortReturn ==
    /\ pc = "collect"
    /\ AllJoined
    /\ result' = SortByStart(all_events)
    /\ pc' = "returned"
    /\ UNCHANGED <<cmd, account_names, calendar_filter, fault, submitted,
                   taskState, taskCalendars, taskIdx, taskEvents, taskError,
                   queried, service_cache, all_events, collectOrder, clock,
                   cliPc, deleteCalls, colorVars, restVars>>

----------------------------------------------------------------------------
(* cli.delete, after search_events returned.                               *)

\* Lines 333-356: no match ends the command; otherwise the user types a
\* number and, for a number of the list, answers the confirmation.
DeletePrompt ==
    /\ cmd = "delete"
    /\ pc = "returned"
    /\ cliPc = "search"
    /\ cliPc' = "done"
    /\ IF result = <<>>
       THEN UNCHANGED deleteCalls
       ELSE \E choice \in 0..(Len(result) + 1) : \E confirm \in BOOLEAN :
               IF choice = 0 \/ choice > Len(result) \/ ~confirm
               THEN UNCHANGED deleteCalls
               ELSE deleteCalls' = Append(deleteCalls,
                        [account_name |-> account_names[1],
                         event_id     |-> result[choice].id,
                         calendar_id  |-> result[choice].calendar_id,
                         status       |-> result[choice].status])
    /\ UNCHANGED <<cmd, account_names, calendar_filter, fault, pc, submitted,
                   taskState, taskCalendars, taskIdx, taskEvents, taskError,
                   queried, service_cache, all_events, collectOrder, clock,
                   result, colorVars, restVars>>

----------------------------------------------------------------------------
(* Specifications.                                                         *)

NextAggregate ==
    \/ Enter
    \/ Submit
    \/ \E i \in Tasks : WorkerStart(i)
    \/ \E i \in Tasks : FetchListCalendars(i)
    \/ \E i \in Tasks : FetchCalendar(i)
    \/ \E i \in Tasks : FetchReturn(i)
    \/ \E i \in Tasks : Collect(i)
    \/ SortReturn

Next ==
    \/ NextAggregate
    \/ DeletePrompt

Spec == Init /\ [][Next]_vars

SpecPool == InitPool /\ [][NextAggregate]_vars

----------------------------------------------------------------------------
(* display._get_account_color.                                             *)

ColorAccount(n) ==
    IF n = 1 THEN Alice
    ELSE IF n = 2 THEN Bob
    ELSE <<"u", DigitChars[(n \div 10) + 1], DigitChars[(n % 10) + 1]>>

\* The accounts a colour may be asked for next: any account seen before, and
\* of the accounts not seen yet the first and the last.
Unseen == {n \in 1..NumColorAccounts : ColorAccount(n) \notin DOMAIN color_map}
NextColorAccounts ==
    DOMAIN color_map
        \cup {ColorAccount(n) : n \in {m \in Unseen :
                 (\A o \in Unseen : m <= o) \/ (\A o \in Unseen : m >= o)}}

\* A faulty palette index that starts at the second colour.
ColorIndexFromOne(size) == (size + 1) % Len(ACCOUNT_COLORS)
\* Line 25: idx = len(_color_map) % len(ACCOUNT_COLORS)
ColorIndex(size) == size % Len(ACCOUNT_COLORS)

GetAccountColor(account_name) ==
    /\ color_map' =
          IF account_name \notin DOMAIN color_map
          THEN color_map @@ (account_name :>
                   ACCOUNT_COLORS[ColorIndex(Cardinality(DOMAIN color_map)) + 1])
          ELSE color_map
    /\ lastCall' = [name |-> account_name, color |-> color_map'[account_name]]
    /\ IF account_name \notin DOMAIN color_map
       THEN /\ seenOrder' = Append(seenOrder, account_name)
            /\ firstColor' = firstColor @@ (account_name :> color_map'[account_name])
       ELSE UNCHANGED <<seenOrder, firstColor>>
    /\ UNCHANGED <<aggVars, restVars>>

\* No get_all_events call is under way.
InitNoCall ==
    /\ cmd = "agenda"
    /\ account_names = <<>>
    /\ calendar_filter = <<>>
    /\ fault = [n \in AllNames |-> NoFault]
    /\ InitTasks

InitColor ==
    /\ InitNoCall
    /\ InitColors
    /\ InitRest

NextColor == \E name \in NextColorAccounts : GetAccountColor(name)

SpecColor == InitColor /\ [][NextColor]_vars

----------------------------------------------------------------------------
(* Dates.  Day 0 is Monday 2024-01-01; instant 0 is its midnight UTC.      *)

\* datetime.date(): the calendar day of a datetime in its own zone.
DateOf(dt) == (dt.utc + dt.off) \div 24

\* models.Event.is_multiday
IsMultiday(e) == DateOf(e.start) # DateOf(e.end)

----------------------------------------------------------------------------
(* The single-event paths: one item of get_events, quick_add, and cli.add  *)
(* with add_event.                                                         *)

\* The UTC offsets a backend dateTime may carry.
ZoneOffsets == {0, KSTOffset, -5}

\* A backend time object: a bare date, or a dateTime at a local hour with
\* or without zone information.
TimedObject(hour, zone) ==
    IF zone = <<>> THEN [dateTime |-> hour]
    ELSE [dateTime |-> hour, offset |-> zone[1]]

\* The items a backend holds: an all-day item spans `days` whole days and its
\* end date is exclusive; a timed item lasts `len` hours, zero included.
BackendItems ==
    {[id |-> "e", status |-> "confirmed",
      start |-> [date |-> d], end |-> [date |-> d + n]] :
        d \in 0..MaxDay, n \in 1..MaxDay}
    \cup
    {[id |-> "e", status |-> "confirmed",
      start |-> TimedObject(h, z), end |-> TimedObject(h + len, z)] :
        h \in 0..MaxHour, len \in 0..MaxLen,
        z \in {<<>>} \cup {<<o>> : o \in ZoneOffsets}}

\* One item of the get_events loop, or the result of quickAdd: the Event is
\* built from the item's start and end by _parse_event_time.  A behaviour
\* of SpecEvent is one call.
BuildFromBackend(path, item) ==
    /\ built' = MakeEvent(item, Alice, "primary")
    /\ builtFrom' = [path |-> path, item |-> item]
    /\ UNCHANGED <<aggVars, colorVars, gridVars, cacheVars, pageVars, acctVars>>

\* A datetime in UTC, as cli.add builds with replace(tzinfo=timezone.utc).
InUTC(hour) == [utc |-> hour, off |-> 0]

\* cli.add: `end` from --end-time if given, otherwise start + --duration.
AddEnd(start, duration, end_time) ==
    IF end_time # <<>> THEN InUTC(end_time[1])
    ELSE InUTC(start.utc + duration)

\* add_event: the request body of events().insert.
AddBody(start, end, all_day) ==
    IF all_day THEN [start |-> [date |-> DateOf(start)],
                     end   |-> [date |-> DateOf(end)]]
    ELSE [start |-> [dateTime |-> start.utc, offset |-> start.off],
          end   |-> [dateTime |-> end.utc, offset |-> end.off]]

\* cli.add followed by api.add_event.  The backend accepts or rejects the
\* insert; on success the Event carries the caller's start and end.
AddEvent(when, duration, end_time, allday, accepted) ==
    LET start == InUTC(when)
        end   == AddEnd(start, duration, end_time)
    IN  /\ builtFrom' = [path |-> "add", when |-> when, duration |-> duration,
                         end_time |-> end_time, allday |-> allday,
                         body |-> AddBody(start, end, allday),
                         accepted |-> accepted]
        /\ built' = IF accepted
                    THEN [id |-> "e", start |-> start, end |-> end,
                          account_name |-> Alice, calendar_id |-> "primary",
                          all_day |-> allday, status |-> "confirmed"]
                    ELSE NoEvent
        /\ UNCHANGED <<aggVars, colorVars, gridVars, cacheVars, pageVars,
                       acctVars>>

InitEvent ==
    /\ InitNoCall
    /\ InitColors
    /\ InitRest

NextEvent ==
    /\ builtFrom.path = "none"
    /\ \/ \E path \in {"get_events", "quick_add"}, item \in BackendItems :
             BuildFromBackend(path, item)
       \/ \E when \in 0..MaxHour,
             duration \in (0 - MaxDuration)..MaxDuration,
             end_time \in {<<>>} \cup {<<h>> : h \in 0..MaxHour},
             allday \in BOOLEAN, accepted \in BOOLEAN :
             AddEvent(when, duration, end_time, allday, accepted)

SpecEvent == InitEvent /\ [][NextEvent]_vars

----------------------------------------------------------------------------
(* display.print_week.  A cell holds the position, in the input list, of   *)
(* the event it renders; the empty cell is <<>>.                           *)

\* date.weekday(): 0 is Monday.
Weekday(day) == day % 7

\* A faulty alignment that leaves the start date where it is.
AlignToWeekStartSkipped(start_date, monday_start) == start_date
\* print_week: "Align to week start".
AlignToWeekStart(start_date, monday_start) ==
    IF monday_start THEN start_date - Weekday(start_date)
    ELSE start_date - ((Weekday(start_date) + 1) % 7)

\* day_events[day]: the events of the list that start on `day`, in list order.
DayEvents(events, day) ==
    SelectSeq([k \in DOMAIN events |-> k],
              LAMBDA k : DateOf(events[k].start) = day)

MaxOf(S) == CHOOSE x \in S : \A y \in S : y <= x

\* A faulty row count that lacks the floor of one row.
RowCountNoFloor(day_events) ==
    MaxOf({Len(day_events[d]) : d \in DOMAIN day_events})
\* print_week: max_events
RowCount(day_events) ==
    MaxOf({MaxOf({Len(day_events[d]) : d \in DOMAIN day_events}), 1})

\* The table of the week that starts on week_start.
WeekTable(events, week_start) ==
    LET days       == [d \in 1..7 |-> week_start + (d - 1)]
        day_events == [d \in 1..7 |-> DayEvents(events, days[d])]
    IN  [days |-> days,
         rows |-> [row_idx \in 1..RowCount(day_events) |->
                      [d \in 1..7 |->
                          IF row_idx <= Len(day_events[d])
                          THEN <<day_events[d][row_idx]>>
                          ELSE <<>>]]]

\* print_week: one table per week of range(weeks).
WeekTables(events, weeks, start_date, monday_start) ==
    [w \in 1..weeks |->
        WeekTable(events,
                  AlignToWeekStart(start_date, monday_start) + 7 * (w - 1))]

\* An event that starts at 03:00 KST of `day` (18:00 UTC of the day before).
EventOn(day) == [start |-> [utc |-> 24 * day + 3 - KSTOffset, off |-> KSTOffset],
                 all_day |-> FALSE]

\* The event lists handed to a view: sorted by start, as get_all_events
\* returns them.
EventLists(days, maxLen) ==
    UNION {{[k \in 1..n |-> EventOn(s[k])] :
               s \in {t \in [1..n -> days] :
                         \A k \in 1..(n - 1) : t[k] <= t[k + 1]}} :
           n \in 0..maxLen}

\* The days events start on: from Sunday 2024-01-07 on.
WeekEventDays == 6..(6 + MaxSpan)
\* The start dates: each day of the week from Monday 2024-01-08.
WeekStartDates == 7..13

PrintWeek(events, weeks, start_date, monday_start) ==
    /\ gridInput' = [view |-> "week", events |-> events, weeks |-> weeks,
                     start_date |-> start_date, monday_start |-> monday_start]
    /\ grid' = WeekTables(events, weeks, start_date, monday_start)
    /\ UNCHANGED <<aggVars, colorVars, eventVars, cacheVars, pageVars,
                   acctVars>>

InitWeek ==
    /\ InitNoCall
    /\ InitColors
    /\ InitRest

\* A behaviour of SpecWeek is one call.
NextWeek ==
    /\ gridInput.view = "none"
    /\ \E events \in EventLists(WeekEventDays, MaxEvents),
          weeks \in 0..MaxWeeks,
          start_date \in WeekStartDates,
          monday_start \in BOOLEAN :
          PrintWeek(events, weeks, start_date, monday_start)

SpecWeek == InitWeek /\ [][NextWeek]_vars

----------------------------------------------------------------------------
(* display.print_month.  The calendar runs from January 2024; a cell holds *)
(* the day number, the positions of the events it marks and its overflow   *)
(* counter; the cell of a day outside the month is <<>>.                   *)

\* The lengths of the months from January 2024 to February 2025.
MonthDays == <<31, 29, 31, 30, 31, 30, 31, 31, 30, 31, 30, 31, 31, 28>>

\* date.year, date.month, date.day of a day of the calendar.
RECURSIVE DatePartsFrom(_, _)
DatePartsFrom(day, m) ==
    IF day < MonthDays[m]
    THEN [year |-> 2024 + ((m - 1) \div 12), month |-> ((m - 1) % 12) + 1,
          day |-> day + 1]
    ELSE DatePartsFrom(day - MonthDays[m], m + 1)

DateParts(day) == DatePartsFrom(day, 1)

\* date(year, month, day_num) as a day of the calendar.
RECURSIVE DaysBefore(_)
DaysBefore(m) == IF m = 1 THEN 0 ELSE DaysBefore(m - 1) + MonthDays[m - 1]

MakeDate(year, month, day_num) ==
    DaysBefore(12 * (year - 2024) + month) + (day_num - 1)

\* calendar.monthrange(year, month)[1]
MonthLength(year, month) == MonthDays[12 * (year - 2024) + month]

\* calendar.Calendar(firstweekday).monthdayscalendar(year, month): full weeks
\* of day numbers, 0 for the days outside the month.
MonthDaysCalendar(year, month, first_weekday) ==
    LET lead  == (Weekday(MakeDate(year, month, 1)) + 7 - first_weekday) % 7
        len   == MonthLength(year, month)
        weeks == (lead + len + 6) \div 7
    IN  [w \in 1..weeks |->
            [c \in 1..7 |->
                LET day_num == 7 * (w - 1) + c - lead
                IN  IF day_num >= 1 /\ day_num <= len THEN day_num ELSE 0]]

\* print_month: event_by_day.get(day_num, []) for the month of start_date.
EventByDay(events, year, month, day_num) ==
    SelectSeq([k \in DOMAIN events |-> k],
              LAMBDA k :
                  LET d == DateParts(DateOf(events[k].start))
                  IN  d.year = year /\ d.month = month /\ d.day = day_num)

\* day_evts[:3]
Markers(day_evts) ==
    SubSeq(day_evts, 1, IF Len(day_evts) > 3 THEN 3 ELSE Len(day_evts))

\* A faulty overflow counter that counts every event of the day.
OverflowCountsAll(day_evts) ==
    IF Len(day_evts) > 3 THEN <<Len(day_evts)>> ELSE <<>>
\* The "+K" part of a cell: present only when the day has more than 3 events.
Overflow(day_evts) ==
    IF Len(day_evts) > 3 THEN <<Len(day_evts) - 3>> ELSE <<>>

MonthTable(events, start_date, monday_start) ==
    LET year  == DateParts(start_date).year
        month == DateParts(start_date).month
        weeks == MonthDaysCalendar(year, month,
                                   IF monday_start THEN 0 ELSE 6)
    IN  [w \in DOMAIN weeks |->
            [c \in 1..7 |->
                IF weeks[w][c] = 0 THEN <<>>
                ELSE LET day_evts == EventByDay(events, year, month,
                                                weeks[w][c])
                     IN  <<[day      |-> weeks[w][c],
                            markers  |-> Markers(day_evts),
                            overflow |-> Overflow(day_evts)]>>]]

\* The days events of a month view start on: 2024-01-31, 2024-02-01,
\* 2024-02-05, 2024-02-29, 2024-03-01 and 2025-02-05.
MonthEventDays == {30, 31, 35, 59, 60, 401}
\* The start dates: days of January and February 2024 and of February 2025.
MonthStartDates == {0, 31, 45, 397}

PrintMonth(events, start_date, monday_start) ==
    /\ gridInput' = [view |-> "month", events |-> events,
                     start_date |-> start_date, monday_start |-> monday_start]
    /\ grid' = MonthTable(events, start_date, monday_start)
    /\ UNCHANGED <<aggVars, colorVars, eventVars, cacheVars, pageVars,
                   acctVars>>

InitMonth ==
    /\ InitNoCall
    /\ InitColors
    /\ InitRest

\* A behaviour of SpecMonth is one call.
NextMonth ==
    /\ gridInput.view = "none"
    /\ \E events \in EventLists(MonthEventDays, MaxMonthEvents),
          start_date \in MonthStartDates, monday_start \in BOOLEAN :
          PrintMonth(events, start_date, monday_start)

SpecMonth == InitMonth /\ [][NextMonth]_vars

----------------------------------------------------------------------------
(* api.get_service called by the worker threads of one get_all_events call *)
(* (list_calendars, then get_events, each call get_service).  Nothing      *)
(* orders the threads between the cache test, build() and the cache store. *)

\* The account lists of the call: any list over two names, repeats included.
ThreadAccounts ==
    UNION {[1..n -> {Alice, Bob}] : n \in 1..MaxThreads}

Threads == DOMAIN svcPc

\* get_service: `if account_name in _service_cache: return ...`
GetServiceCheck(t) ==
    /\ svcPc[t].at = "idle"
    /\ svcPc[t].calls < MaxCalls
    /\ IF svcPc[t].account \in DOMAIN svcCache
       THEN /\ svcGot' = [svcGot EXCEPT
                             ![t] = Append(@, svcCache[svcPc[t].account])]
            /\ svcPc' = [svcPc EXCEPT ![t].calls = @ + 1]
       ELSE /\ svcPc' = [svcPc EXCEPT ![t].at = "build"]
            /\ UNCHANGED svcGot
    /\ UNCHANGED <<svcCache, svcHandles>>
    /\ UNCHANGED <<aggVars, colorVars, eventVars, gridVars, pageVars, acctVars>>

\* get_service: load_credentials and build(): a new service handle.
GetServiceBuild(t) ==
    /\ svcPc[t].at = "build"
    /\ svcHandles' = Append(svcHandles,
                            [account |-> svcPc[t].account,
                             id |-> Len(svcHandles) + 1])
    /\ svcPc' = [svcPc EXCEPT ![t].at = "store",
                              ![t].service = Len(svcHandles) + 1]
    /\ UNCHANGED <<svcCache, svcGot>>
    /\ UNCHANGED <<aggVars, colorVars, eventVars, gridVars, pageVars, acctVars>>

\* get_service: `_service_cache[account_name] = service; return service`
GetServiceStore(t) ==
    /\ svcPc[t].at = "store"
    /\ svcCache' = [n \in DOMAIN svcCache \cup {svcPc[t].account} |->
                       IF n = svcPc[t].account THEN svcPc[t].service
                       ELSE svcCache[n]]
    /\ svcGot' = [svcGot EXCEPT ![t] = Append(@, svcPc[t].service)]
    /\ svcPc' = [svcPc EXCEPT ![t].at = "idle", ![t].calls = @ + 1]
    /\ UNCHANGED svcHandles
    /\ UNCHANGED <<aggVars, colorVars, eventVars, gridVars, pageVars, acctVars>>

InitCache ==
    /\ InitNoCall
    /\ InitColors
    /\ InitEventVars /\ InitGridVars /\ InitPageVars /\ InitAcctVars
    /\ \E names \in ThreadAccounts :
          svcPc = [t \in DOMAIN names |->
                      [account |-> names[t], at |-> "idle", calls |-> 0,
                       service |-> 0]]
    /\ svcCache = << >>
    /\ svcHandles = <<>>
    /\ svcGot = [t \in DOMAIN svcPc |-> <<>>]

NextCache ==
    \E t \in Threads :
        \/ GetServiceCheck(t)
        \/ GetServiceBuild(t)
        \/ GetServiceStore(t)

SpecCache == InitCache /\ [][NextCache]_vars

----------------------------------------------------------------------------
(* The page loop of api.get_events and api.list_calendars.  Token 0 stands *)
(* for None; the backend names page k by the token k.                      *)

\* What one page may hold: the status of each of its event items.
PageShapes ==
    {<<>>, <<"confirmed">>, <<"cancelled">>, <<"confirmed", "confirmed">>,
     <<"confirmed", "cancelled">>, <<"cancelled", "confirmed">>}

\* The backend's answer for each page of a listing of n pages: the items and
\* the token of the page after it, none on the last.
Listings(kind) ==
    UNION {{[k \in 1..n |->
                [items |-> [j \in DOMAIN shapes[k] |->
                               [id |-> <<k, j>>,
                                status |-> IF kind = "events" THEN shapes[k][j]
                                           ELSE "calendar"]],
                 nextPageToken |-> IF k < n THEN k + 1 ELSE 0]] :
               shapes \in [1..n -> PageShapes]} :
           n \in 1..MaxPages}

\* The page the backend returns for a pageToken.
PageFor(pages, page_token) ==
    pages[IF page_token = 0 THEN 1 ELSE page_token]

\* The items of a page the loop body appends: get_events skips the cancelled
\* ones, list_calendars keeps every item.
KeptItems(kind, page) ==
    LET kept == IF kind = "events"
                THEN SelectSeq(page.items, LAMBDA it : it.status # "cancelled")
                ELSE page.items
    IN  [j \in DOMAIN kept |-> kept[j].id]

\* A faulty loop that never asks for a further page.
NextPageTokenDropped(page) == 0
\* page_token = result.get("nextPageToken")
NextPageToken(page) == page.nextPageToken

\* One round of `while True`: the request, the loop over its items, the new
\* token and, when there is none, the return.  A failing request raises out
\* of the function and the local list is lost.
PageRequest ==
    LET page == PageFor(pgPages, pgToken)
    IN  /\ pgPc = "loop"
        /\ pgRequests' = Append(pgRequests, pgToken)
        /\ IF pgFailAt = Len(pgRequests) + 1
           THEN /\ pgPc' = "raised"
                /\ UNCHANGED <<pgItems, pgToken, pgReturned>>
           ELSE /\ pgItems' = pgItems \o KeptItems(pgKind, page)
                /\ pgToken' = NextPageToken(page)
                /\ IF NextPageToken(page) = 0
                   THEN /\ pgPc' = "returned"
                        /\ pgReturned' = pgItems \o KeptItems(pgKind, page)
                   ELSE /\ pgPc' = "loop"
                        /\ UNCHANGED pgReturned
        /\ UNCHANGED <<pgKind, pgPages, pgFailAt>>
        /\ UNCHANGED <<aggVars, colorVars, eventVars, gridVars, cacheVars,
                       acctVars>>

InitPages ==
    /\ InitNoCall
    /\ InitColors
    /\ InitEventVars /\ InitGridVars /\ InitCacheVars /\ InitAcctVars
    /\ pgKind \in {"events", "calendars"}
    /\ pgPages \in Listings(pgKind)
    /\ pgFailAt \in 0..Len(pgPages)
    /\ pgToken = 0
    /\ pgItems = <<>>
    /\ pgPc = "loop"
    /\ pgRequests = <<>>
    /\ pgReturned = <<>>

NextPages == PageRequest

SpecPages == InitPages /\ [][NextPages]_vars

----------------------------------------------------------------------------
(* accounts.add_account and accounts.remove_account over the token files   *)
(* and config.json.                                                        *)

\* The characters of account names in code-point order, as sorted() on str
\* compares them.
CodePointOrder ==
    <<" ", "-">> \o DigitChars \o UpperChars \o <<"_">> \o LowerChars

CodePoint(c) == CHOOSE k \in DOMAIN CodePointOrder : CodePointOrder[k] = c

\* str < str: the first differing character decides; a proper prefix is
\* smaller.
LessName(a, b) ==
    \/ /\ Len(a) < Len(b)
       /\ \A k \in DOMAIN a : a[k] = b[k]
    \/ \E k \in DOMAIN a \cap DOMAIN b :
          /\ \A j \in 1..(k - 1) : a[j] = b[j]
          /\ CodePoint(a[k]) < CodePoint(b[k])

\* config.list_account_names: the directories that hold a token.json, sorted.
ListAccountNames(registered) ==
    CHOOSE s \in [1..Cardinality(registered) -> registered] :
        /\ \A i, j \in DOMAIN s : i < j => LessName(s[i], s[j])

\* A faulty removal that leaves default_account as it was.
DefaultAfterRemoveKept(default, name, remaining) == default
\* remove_account: "Update default if removed account was default".
DefaultAfterRemove(default, name, remaining) ==
    IF default = name
    THEN IF remaining # <<>> THEN remaining[1] ELSE NoDefault
    ELSE default

\* The names the account commands are called with.
AccountArgs == {Alice, Bob, <<"Z">>, BadName}

\* accounts.add_account.  `outcome` is what the OAuth flow and the probe of
\* the primary calendar do once the call gets that far: "ok", "auth_fails"
\* (nothing stored) or "probe_fails" (the token is already stored).
AddAccount(name, outcome) ==
    /\ IF ~ValidAccountName(name) \/ name \in tokens
       THEN /\ lastOp' = [op |-> "add", name |-> name,
                          outcome |-> "ValueError", wasDefault |-> FALSE]
            /\ UNCHANGED <<tokens, default_account>>
       ELSE /\ lastOp' = [op |-> "add", name |-> name, outcome |-> outcome,
                          wasDefault |-> FALSE]
            /\ tokens' = IF outcome = "auth_fails" THEN tokens
                         ELSE tokens \cup {name}
            /\ default_account' =
                  IF outcome = "ok" /\ default_account = NoDefault THEN name
                  ELSE default_account
    /\ UNCHANGED <<aggVars, colorVars, eventVars, gridVars, cacheVars,
                   pageVars>>

\* accounts.remove_account
RemoveAccount(name) ==
    /\ IF name \notin tokens
       THEN /\ lastOp' = [op |-> "remove", name |-> name,
                          outcome |-> "ValueError", wasDefault |-> FALSE]
            /\ UNCHANGED <<tokens, default_account>>
       ELSE /\ lastOp' = [op |-> "remove", name |-> name, outcome |-> "ok",
                          wasDefault |-> (default_account = name)]
            /\ tokens' = tokens \ {name}
            /\ default_account' =
                  DefaultAfterRemove(default_account, name,
                                     ListAccountNames(tokens \ {name}))
    /\ UNCHANGED <<aggVars, colorVars, eventVars, gridVars, cacheVars,
                   pageVars>>

InitAccounts ==
    /\ InitNoCall
    /\ InitColors
    /\ InitRest

NextAccounts ==
    \/ \E name \in AccountArgs, outcome \in {"ok", "auth_fails", "probe_fails"} :
          AddAccount(name, outcome)
    \/ \E name \in AccountArgs : RemoveAccount(name)

SpecAccounts == InitAccounts /\ [][NextAccounts]_vars

----------------------------------------------------------------------------
(* Properties.                                                             *)

Returned == pc = "returned" /\ account_names # <<>>

Failed(i) == taskError[i] # ""

IsError(e) == e.status = "error"

\* The task an event of the result came from.
TaskOf(e) == CHOOSE i \in Tasks : account_names[i] = e.account_name

\* Position of x in a sequence without repetitions.
PosIn(s, x) == CHOOSE k \in DOMAIN s : s[k] = x

Count(s, Test(_)) == Cardinality({k \in DOMAIN s : Test(s[k])})

\* Equality of two texts up to the case of their letters.
SameLetter(a, b) ==
    a = b \/ \E k \in DOMAIN UpperChars : {a, b} = {UpperChars[k], LowerChars[k]}
ContainsIgnoringCase(text, sub) ==
    \E k \in 0..(Len(text) - Len(sub)) :
        \A j \in 1..Len(sub) : SameLetter(text[k + j], sub[j])

\* The eligibility rule as the specification words it.
EligibleBySpec(cal) ==
    /\ cal.access_role \in {"owner", "writer", "reader"}
    /\ \/ calendar_filter = <<>>
       \/ \E k \in DOMAIN calendar_filter :
             ContainsIgnoringCase(cal.summary, calendar_filter[k])

\* What the backend holds for an account: the events, cancelled ones
\* aside, of its eligible calendars, in calendar order then page order.
RECURSIVE EventsOfCalendars(_, _)
EventsOfCalendars(name, cals) ==
    IF cals = <<>> THEN <<>>
    ELSE (IF EligibleBySpec(Head(cals)) THEN GetEvents(name, Head(cals).id)
          ELSE <<>>) \o EventsOfCalendars(name, Tail(cals))
BackendEvents(name) == EventsOfCalendars(name, ListCalendars(name))

\* C1: the list get_all_events returns for a non-empty account list is
\* sorted non-decreasingly by start, synthetic error events included.
C1_ResultSortedByStart ==
    Returned =>
        \A p, q \in DOMAIN result :
            p < q => result[p].start.utc <= result[q].start.utc

\* C1 witness: a returned list with an error event and real events whose
\* arrival order was not sorted.
C1_Witness ==
    /\ Returned
    /\ \E p \in DOMAIN result : IsError(result[p])
    /\ \E p \in DOMAIN result : ~IsError(result[p])
    /\ \E p, q \in DOMAIN all_events :
          p < q /\ all_events[p].start.utc > all_events[q].start.utc

\* C2: error isolation: whichever tasks raise, the call returns; the result
\* holds exactly one error event per failed account, none for the others,
\* and every backend event of every eligible calendar of each account that
\* did not fail exactly once.
C2_ErrorIsolation ==
    Returned =>
        /\ \A p \in DOMAIN result : result[p].account_name \in Range(account_names)
        /\ \A i \in Tasks :
              LET name == account_names[i]
                  Mine(e) == e.account_name = name
                  MyError(e) == Mine(e) /\ IsError(e)
                  MyReal(e) == Mine(e) /\ ~IsError(e)
              IN  IF Failed(i)
                  THEN Count(result, MyError) = 1
                  ELSE /\ Count(result, MyError) = 0
                       /\ Count(result, MyReal) = Len(BackendEvents(name))
                       /\ \A k \in DOMAIN BackendEvents(name) :
                             Count(result, LAMBDA e : e = BackendEvents(name)[k]) = 1

\* C2 witness: three accounts, one of them failed, the other two with events.
C2_Witness ==
    /\ Returned
    /\ Len(account_names) = 3
    /\ Cardinality({i \in Tasks : Failed(i)}) = 1
    /\ \A i \in Tasks : ~Failed(i) => BackendEvents(account_names[i]) # <<>>

\* C3 (as claimed): the events a failed task had fetched before it failed are
\* in the result, next to its error event.
C3_PartialEventsKept ==
    Returned =>
        \A i \in Tasks :
            Failed(i) => \A k \in DOMAIN taskEvents[i] :
                            \E p \in DOMAIN result : result[p] = taskEvents[i][k]

\* C4 (as claimed): a call whose account list holds a syntactically invalid
\* name never returns normally, and no result files the validation error as
\* a synthetic error event.
C4_ValidationErrorIsFatal ==
    /\ pc = "returned" => \A k \in DOMAIN account_names :
                             ValidAccountName(account_names[k])
    /\ \A p \in DOMAIN result :
          IsError(result[p]) => ValidAccountName(result[p].account_name)

\* C5 (as claimed): delete_event is never invoked with the id and
\* calendar_id of a synthetic error event.
C5_ErrorEventNeverDeleted ==
    \A k \in DOMAIN deleteCalls :
        ~(deleteCalls[k].event_id = "error" /\ deleteCalls[k].calendar_id = "")

\* C6: at most 5 per-account tasks execute at the same time.
C6_AtMostFiveRunning == Cardinality(Running) <= 5

\* C6 witness: five tasks run while a sixth waits in the queue.
C6_Witness ==
    /\ Cardinality(Running) = 5
    /\ \E i \in Tasks : taskState[i] = "queued"

\* C7: get_all_events returns only after every account's task was
\* dispatched and has completed or failed: at return no task is pending or
\* running and every account has contributed exactly one outcome.
C7_JoinBeforeReturn ==
    Returned =>
        /\ submitted = Len(account_names)
        /\ \A i \in Tasks :
              /\ taskState[i] = "collected"
              /\ Cardinality({k \in DOMAIN collectOrder : collectOrder[k] = i}) = 1
              /\ IF Failed(i)
                 THEN Count(all_events, LAMBDA e : e.account_name = account_names[i]) = 1
                 ELSE Count(all_events, LAMBDA e : e.account_name = account_names[i])
                          = Len(taskEvents[i])

\* C7 witness: a call over three accounts has returned, one task failed.
C7_Witness ==
    /\ Returned
    /\ Len(account_names) = 3
    /\ \E i \in Tasks : Failed(i)
    /\ \E i \in Tasks : ~Failed(i)

\* C8: a calendar is queried only if its role is owner, writer or reader and
\* the name filter is empty or one of its substrings occurs in the display
\* name, case ignored; a task that ends normally has queried every such
\* calendar, each once.
C8_CalendarEligibility ==
    \A i \in Tasks :
        LET cals == ListCalendars(account_names[i])
        IN  /\ \A k \in DOMAIN queried[i] :
                  \E c \in DOMAIN cals :
                      cals[c].id = queried[i][k] /\ EligibleBySpec(cals[c])
            /\ \A k, l \in DOMAIN queried[i] :
                  queried[i][k] = queried[i][l] => k = l
            /\ (taskState[i] \in {"ok", "collected"} /\ ~Failed(i)) =>
                  \A c \in DOMAIN cals :
                      EligibleBySpec(cals[c]) => cals[c].id \in Range(queried[i])

\* C8 witness: under the filter ["team"] the calendar shown as "Work Team"
\* was queried, and the finished task of the account that has a "Work Team"
\* calendar with role none, and one named "Team Holidays" with role
\* freeBusyReader in another account, queried neither.
C8_Witness ==
    /\ calendar_filter = <<TeamLower>>
    /\ \E i \in Tasks :
          /\ account_names[i] = Alice
          /\ taskState[i] = "collected"
          /\ queried[i] = <<"a-work">>
    /\ \E i \in Tasks :
          /\ account_names[i] = Carol
          /\ taskState[i] = "collected" /\ ~Failed(i)
          /\ queried[i] = <<>>

\* C9: the k-th distinct account seen (k from 0) gets palette entry
\* k modulo 10, and every call for an account returns the colour of its
\* first call.
C9_ColorAssignmentStable ==
    /\ \A k \in DOMAIN seenOrder :
          firstColor[seenOrder[k]] = ACCOUNT_COLORS[((k - 1) % 10) + 1]
    /\ \A name \in DOMAIN firstColor : color_map[name] = firstColor[name]
    /\ lastCall.name # <<>> => lastCall.color = firstColor[lastCall.name]

\* C9 witness: alice, bob, alice gave c0, c1, c0, and an eleventh account
\* wrapped around to c0.
C9_Witness ==
    /\ Len(seenOrder) >= 11
    /\ seenOrder[1] = Alice /\ seenOrder[2] = Bob
    /\ firstColor[Alice] = "cyan" /\ firstColor[Bob] = "magenta"
    /\ firstColor[seenOrder[11]] = "cyan"
    /\ lastCall = [name |-> Alice, color |-> "cyan"]

\* C10 (as claimed): backend events of equal start appear in account order
\* across accounts and in fetch order within an account, whatever the order
\* in which the tasks complete.
C10_TiesInAccountOrder ==
    Returned =>
        \A p, q \in DOMAIN result :
            (/\ p < q
             /\ ~IsError(result[p]) /\ ~IsError(result[q])
             /\ result[p].start.utc = result[q].start.utc) =>
                LET i == TaskOf(result[p])
                    j == TaskOf(result[q])
                IN  IF i = j
                    THEN PosIn(taskEvents[i], result[p]) < PosIn(taskEvents[i], result[q])
                    ELSE i < j

\* C10 (amended): events of equal start keep fetch order within an account;
\* across accounts they appear in the order in which as_completed yielded
\* the tasks.
C10_TiesInCompletionOrder ==
    Returned =>
        \A p, q \in DOMAIN result :
            (p < q /\ result[p].start.utc = result[q].start.utc) =>
                LET i == TaskOf(result[p])
                    j == TaskOf(result[q])
                IN  IF i = j
                    THEN PosIn(taskEvents[i], result[p]) < PosIn(taskEvents[i], result[q])
                    ELSE PosIn(collectOrder, i) < PosIn(collectOrder, j)

\* C10 witness: two events of equal start of one account, and two of
\* different accounts that appear against the account order.
C10_Witness ==
    /\ Returned
    /\ \E p, q \in DOMAIN result :
          /\ p < q /\ result[p].start.utc = result[q].start.utc
          /\ TaskOf(result[p]) = TaskOf(result[q])
    /\ \E p, q \in DOMAIN result :
          /\ p < q /\ result[p].start.utc = result[q].start.utc
          /\ ~IsError(result[p]) /\ ~IsError(result[q])
          /\ TaskOf(result[p]) > TaskOf(result[q])

\* C11 (as claimed): every event of the returned list, synthetic error
\* events included, has start and end in the target zone, so that
\* start.date() is the date in the target zone.
C11_AllInTargetZone ==
    Returned =>
        \A p \in DOMAIN result :
            /\ result[p].start.off = 9
            /\ result[p].end.off = 9
            /\ DateOf(result[p].start) = (result[p].start.utc + 9) \div 24


\* C12 (as claimed): an item whose start is the bare date D and whose
\* exclusive end is the bare date D+1 yields an Event with all_day true,
\* start at midnight of D in the target zone, and is_multiday false.
C12_OneDayAllDayNotMultiday ==
    (/\ builtFrom.path \in {"get_events", "quick_add"}
     /\ "date" \in DOMAIN builtFrom.item.start
     /\ builtFrom.item.end.date = builtFrom.item.start.date + 1)
    => /\ built.all_day
       /\ built.start = [utc |-> 24 * builtFrom.item.start.date - 9, off |-> 9]
       /\ ~IsMultiday(built)

\* C13 (as claimed): every Event a single-event path constructs, cli.add with
\* any --duration or --end-time included, has start <= end.
C13_StartNotAfterEnd ==
    built # NoEvent => built.start.utc <= built.end.utc

\* The number of events of the input list that start on `day`.
EventsOn(events, day) ==
    Cardinality({k \in DOMAIN events : DateOf(events[k].start) = day})

\* The larger of two numbers.
Larger(a, b) == IF a >= b THEN a ELSE b

\* The greatest number of events on one day of the week from week_start.
BusiestDay(events, week_start) ==
    CHOOSE n \in 0..Len(events) :
        /\ \E d \in 0..6 : EventsOn(events, week_start + d) = n
        /\ \A d \in 0..6 : EventsOn(events, week_start + d) <= n

\* C14: each rendered week has as many rows as its busiest day has events,
\* and one row when it has no event; a day with fewer events than rows is
\* blank in every row after its events.
C14_WeekRowCount ==
    gridInput.view = "week" =>
        \A w \in DOMAIN grid :
            LET t == grid[w] IN
            /\ Len(t.rows) = Larger(BusiestDay(gridInput.events, t.days[1]), 1)
            /\ \A d \in 1..7, r \in DOMAIN t.rows :
                  (t.rows[r][d] = <<>>) <=>
                      (r > EventsOn(gridInput.events, t.days[d]))

\* Three events on the Monday and none on the Tuesday of a rendered week:
\* three rows, Tuesday blank in each.
C14_Witness ==
    /\ gridInput.view = "week"
    /\ \E w \in DOMAIN grid :
          /\ Weekday(grid[w].days[1]) = 0
          /\ EventsOn(gridInput.events, grid[w].days[1]) = 3
          /\ EventsOn(gridInput.events, grid[w].days[2]) = 0
          /\ Len(grid[w].rows) = 3
          /\ \A r \in 1..3 : grid[w].rows[r][2] = <<>>

\* The first day of the week of start_date: the latest day not after
\* start_date that falls on the configured first weekday.
WeekStartOf(start_date, monday_start) ==
    CHOOSE a \in (start_date - 6)..start_date :
        Weekday(a) = IF monday_start THEN 0 ELSE 6

\* The cells <<week, row, column>> of the grid that render event k.
CellsOf(k) ==
    {c \in (DOMAIN grid) \X (1..(Len(gridInput.events) + 1)) \X (1..7) :
        /\ c[2] \in DOMAIN grid[c[1]].rows
        /\ grid[c[1]].rows[c[2]][c[3]] = <<k>>}

\* C19: with the start date aligned backward to the configured week start,
\* every event that starts inside the window of 7 x weeks days is rendered in
\* exactly one cell, in the week and the column of its start date; an event
\* outside the window is rendered in no cell; within one column the events
\* run top to bottom in input order.
C19_WeekPartition ==
    gridInput.view = "week" =>
        LET a      == WeekStartOf(gridInput.start_date, gridInput.monday_start)
            events == gridInput.events
        IN  /\ \A k \in DOMAIN events :
                  LET day == DateOf(events[k].start) IN
                  IF day >= a /\ day < a + 7 * gridInput.weeks
                  THEN /\ Cardinality(CellsOf(k)) = 1
                       /\ \A c \in CellsOf(k) :
                             /\ c[1] = ((day - a) \div 7) + 1
                             /\ c[3] = ((day - a) % 7) + 1
                             /\ grid[c[1]].days[c[3]] = day
                  ELSE CellsOf(k) = {}
            /\ \A k1, k2 \in DOMAIN events :
                  \A c1 \in CellsOf(k1), c2 \in CellsOf(k2) :
                      (c1[1] = c2[1] /\ c1[3] = c2[3] /\ c1[2] < c2[2])
                          => k1 < k2

\* A start date in mid-week, two events on a day of the window before it, and
\* one event after the window.
C19_Witness ==
    /\ gridInput.view = "week"
    /\ gridInput.weeks = 1
    /\ Weekday(gridInput.start_date) = 2
    /\ Len(gridInput.events) = 3
    /\ DateOf(gridInput.events[1].start) = gridInput.start_date - 1
    /\ DateOf(gridInput.events[2].start) = gridInput.start_date - 1
    /\ DateOf(gridInput.events[3].start) = gridInput.start_date + 5
    /\ CellsOf(1) = {<<1, 1, 2>>}
    /\ CellsOf(2) = {<<1, 2, 2>>}
    /\ CellsOf(3) = {}

\* The cells <<week, column>> of the month grid that show day number dn.
MonthCellsOf(dn) ==
    {c \in (DOMAIN grid) \X (1..7) :
        grid[c[1]][c[2]] # <<>> /\ grid[c[1]][c[2]][1].day = dn}

\* The positions of the input events that start on `day`, in input order.
StartingOn(events, day) ==
    SelectSeq([k \in DOMAIN events |-> k],
              LAMBDA k : DateOf(events[k].start) = day)

\* The first day of the month that contains `day`.
FirstOfMonth(day) ==
    LET m == CHOOSE i \in DOMAIN MonthDays :
                 DaysBefore(i) <= day /\ day < DaysBefore(i) + MonthDays[i]
    IN  DaysBefore(m)

\* The positions of the events that some cell of the month grid marks.
MarkedInMonth ==
    UNION {Range(grid[c[1]][c[2]][1].markers) :
              c \in {x \in (DOMAIN grid) \X (1..7) : grid[x[1]][x[2]] # <<>>}}

\* C15: the cell of a day of the target month with n events shows the first
\* min(n, 3) of them in input order and the counter +(n - 3) exactly when
\* n > 3; an event that starts outside the target month is in no cell.
C15_MonthOverflow ==
    gridInput.view = "month" =>
        LET first  == FirstOfMonth(gridInput.start_date)
            events == gridInput.events
        IN  /\ \A c \in (DOMAIN grid) \X (1..7) :
                  grid[c[1]][c[2]] # <<>> =>
                      LET cell == grid[c[1]][c[2]][1]
                          on   == StartingOn(events, first + cell.day - 1)
                          n    == Len(on)
                      IN  /\ Len(cell.markers) = IF n < 3 THEN n ELSE 3
                          /\ \A j \in DOMAIN cell.markers :
                                cell.markers[j] = on[j]
                          /\ (cell.overflow # <<>>) <=> (n > 3)
                          /\ n > 3 => cell.overflow = <<n - 3>>
            /\ \A k \in MarkedInMonth :
                  FirstOfMonth(DateOf(events[k].start)) = first

\* Five events on 2024-02-05: three markers and +2; the cell exists once.
C15_Witness ==
    /\ gridInput.view = "month"
    /\ gridInput.start_date = 45
    /\ Len(gridInput.events) = 5
    /\ \A k \in 1..5 : DateOf(gridInput.events[k].start) = 35
    /\ Cardinality(MonthCellsOf(5)) = 1
    /\ \A c \in MonthCellsOf(5) :
          /\ grid[c[1]][c[2]][1].markers = <<1, 2, 3>>
          /\ grid[c[1]][c[2]][1].overflow = <<2>>

CallerAppends(i) ==
    /\ pc = "collect"
    /\ taskState[i] \in {"ok", "failed"}
    /\ taskState' = [taskState EXCEPT ![i] = "collected"]
    /\ taskCalendars' = taskCalendars
    /\ taskIdx' = taskIdx
    /\ taskEvents' = taskEvents
    /\ queried' = queried
    /\ IF taskState[i] = "ok"
       THEN all_events' = all_events \o taskEvents[i]
       ELSE /\ Len(all_events') = Len(all_events) + 1
            /\ SubSeq(all_events', 1, Len(all_events)) = all_events
            /\ all_events'[Len(all_events')].status = "error"
            /\ all_events'[Len(all_events')].account_name = account_names[i]

\* C17: during a get_all_events call the merged list is written only by the
\* calling thread, one completed task result at a time; no step of a worker
\* task changes it.
C17_SingleWriter ==
    [][all_events' # all_events => \E i \in Tasks : CallerAppends(i)]_vars

\* The caller has merged the events of one task while another task is still
\* running and already holds events of its own.
C17_Witness ==
    /\ pc = "collect"
    /\ all_events # <<>>
    /\ \E i, j \in Tasks :
          /\ taskState[i] = "collected"
          /\ taskState[j] = "running"
          /\ taskEvents[j] # <<>>
          /\ \A p \in DOMAIN all_events :
                all_events[p].account_name # account_names[j]

\* The ids of every item the backend holds, in page order, the cancelled
\* events left out.
AllBackendItems ==
    LET all  == Flatten([k \in DOMAIN pgPages |-> pgPages[k].items])
        kept == SelectSeq(all, LAMBDA it : pgKind = "calendars"
                                           \/ it.status # "cancelled")
    IN  [j \in DOMAIN kept |-> kept[j].id]

\* C18: the loop requests page after page, each with the token the page
\* before returned, until a page has no token, and returns the items of all
\* pages in page order (cancelled events left out); if a request fails the
\* call raises and the caller receives no list.
C18_PaginationComplete ==
    /\ pgPc = "returned" =>
          /\ pgFailAt = 0
          /\ Len(pgRequests) = Len(pgPages)
          /\ \A k \in DOMAIN pgRequests :
                pgRequests[k] = IF k = 1 THEN 0
                                ELSE pgPages[k - 1].nextPageToken
          /\ pgReturned = AllBackendItems
    /\ pgPc = "raised" => pgFailAt # 0 /\ pgReturned = <<>>
    /\ (pgFailAt # 0 /\ Len(pgRequests) >= pgFailAt) => pgPc = "raised"

\* An event listing of three pages with a cancelled item on the second page
\* has been read to the end.
C18_Witness ==
    /\ pgKind = "events"
    /\ pgPc = "returned"
    /\ Len(pgPages) = 3
    /\ Len(pgRequests) = 3
    /\ \E j \in DOMAIN pgPages[2].items :
          pgPages[2].items[j].status = "cancelled"
    /\ pgPages[3].items # <<>>
    /\ Len(pgReturned) >= 3

\* The registered name that sorts before every other registered name.
FirstRegistered ==
    CHOOSE m \in tokens : \A x \in tokens : x = m \/ LessName(m, x)

\* C20: after any sequence of add_account and remove_account calls, failed
\* and rejected ones included, default_account is unset or names a registered
\* account; removing the default account makes the first remaining name in
\* sorted order the default, or unsets it when none remains.
C20_DefaultConsistent ==
    /\ default_account = NoDefault \/ default_account \in tokens
    /\ (lastOp.op = "remove" /\ lastOp.outcome = "ok" /\ lastOp.wasDefault) =>
          IF tokens = {} THEN default_account = NoDefault
          ELSE default_account = FirstRegistered

\* The default account alice was removed while bob and Z were registered:
\* the default is Z, which sorts first.
C20_Witness ==
    /\ lastOp.op = "remove"
    /\ lastOp.outcome = "ok"
    /\ lastOp.wasDefault
    /\ lastOp.name = Alice
    /\ tokens = {Bob, <<"Z">>}
    /\ default_account = <<"Z">>
====
